---- MODULE Spec2Model ----
(***************************************************************************)
(* Music-metadata resolution and caching layer of Anon-Web                 *)
(* (src/src/services/songService.ts, lines 1-237): the catalog normalizer, *)
(* the retrying fetch, the search cache and the popular slot with their    *)
(* TTLs, the periodic sweep, getPopularSongs and searchSongs.              *)
(*                                                                         *)
(* Strings the code inspects or transforms (queries, titles, artists,      *)
(* albums, artwork URLs) are sequences of one-character strings, so that   *)
(* trim, toLowerCase, includes, slice and replace are computed.  Strings   *)
(* the code only tests for truthiness and copies (preview URLs, kinds)     *)
(* are TLA+ strings.  An absent string field and an empty one are both     *)
(* falsy in the code and are both the empty sequence / "" here; an absent  *)
(* number and 0 are both 0.                                                *)
(***************************************************************************)
EXTENDS Integers, Sequences, FiniteSets, TLC

----------------------------------------------------------------------------
(* String helpers: what the JavaScript string methods used by the code do. *)

Min(a, b) == IF a < b THEN a ELSE b

\* One character of String.prototype.toLowerCase, on the alphabet in use.
LowerChar(c) ==
    CASE c = "A" -> "a" [] c = "B" -> "b" [] c = "C" -> "c" [] c = "D" -> "d"
      [] c = "E" -> "e" [] c = "F" -> "f" [] c = "G" -> "g" [] c = "H" -> "h"
      [] c = "I" -> "i" [] c = "J" -> "j" [] c = "K" -> "k" [] c = "L" -> "l"
      [] c = "M" -> "m" [] c = "N" -> "n" [] c = "O" -> "o" [] c = "P" -> "p"
      [] c = "Q" -> "q" [] c = "R" -> "r" [] c = "S" -> "s" [] c = "T" -> "t"
      [] c = "U" -> "u" [] c = "V" -> "v" [] c = "W" -> "w" [] c = "X" -> "x"
      [] c = "Y" -> "y" [] c = "Z" -> "z"
      [] OTHER -> c

\* s.toLowerCase()
RECURSIVE ToLowerCase(_)
ToLowerCase(s) ==
    IF s = <<>> THEN <<>> ELSE <<LowerChar(Head(s))>> \o ToLowerCase(Tail(s))

\* White space as String.prototype.trim sees it.
IsSpace(c) == c \in {" ", "\t", "\n"}

\* s.trimStart() and s.trimEnd()
RECURSIVE TrimStart(_)
TrimStart(s) ==
    IF s # <<>> /\ IsSpace(Head(s)) THEN TrimStart(Tail(s)) ELSE s

RECURSIVE TrimEnd(_)
TrimEnd(s) ==
    IF s # <<>> /\ IsSpace(s[Len(s)]) THEN TrimEnd(SubSeq(s, 1, Len(s) - 1)) ELSE s

\* s.trim(): drop the leading and the trailing white space.
Trim(s) == TrimEnd(TrimStart(s))

\* pat occurs in s starting at position i (1-based).
MatchesAt(s, pat, i) ==
    /\ i >= 1
    /\ i + Len(pat) - 1 <= Len(s)
    /\ \A k \in 1..Len(pat) : s[i + k - 1] = pat[k]

\* s.includes(pat)
Includes(s, pat) == \E i \in 1..(Len(s) + 1) : MatchesAt(s, pat, i)

\* A slice that keeps everything.
SliceWhole(s, n) == s

\* s.slice(0, n)
SliceTo(s, n) == SubSeq(s, 1, Min(Len(s), n))

\* s.replace(pat, rep) with a string pattern: the first occurrence only.
Replace(s, pat, rep) ==
    LET hits == {i \in 1..(Len(s) + 1) : MatchesAt(s, pat, i)}
        at   == CHOOSE i \in hits : \A j \in hits : i <= j
    IN  IF hits = {} THEN s
        ELSE SubSeq(s, 1, at - 1) \o rep \o SubSeq(s, at + Len(pat), Len(s))

\* a || b on strings: the empty string is falsy.
OrElse(a, b) == IF a = <<>> THEN b ELSE a

----------------------------------------------------------------------------
(* Program constants.                                                      *)

SEARCH_CACHE_TTL == 1800000
POPULAR_CACHE_TTL == 7200000
\* retries = 2, the default parameter of fetchFromITunes
DefaultRetries == 2
\* unique.slice(0, 15)
PopularLimit == 15
\* .slice(0, 100) of title, artist and album
FieldLimit == 100
\* t.trackTimeMillis || 30000
DefaultMillis == 30000
\* trimmed.length < 2
MinQueryLen == 2
\* the three URLs of `queries` in getPopularSongs
NumQueries == 3

Unknown == <<"U", "n", "k", "n", "o", "w", "n">>
UnknownArtist == <<"U", "n", "k", "n", "o", "w", "n", " ", "A", "r", "t", "i", "s", "t">>
LowRes == <<"1", "0", "0", "x", "1", "0", "0">>
HighRes == <<"3", "0", "0", "x", "3", "0", "0">>

FALLBACK_SONGS == <<
  [id |-> 1440818839,
   title |-> <<"S", "h", "a", "p", "e", " ", "o", "f", " ", "Y", "o", "u">>,
   artist |-> <<"E", "d", " ", "S", "h", "e", "e", "r", "a", "n">>,
   album |-> <<"÷">>,
   albumCover |->
    <<"h", "t", "t", "p", "s", ":", "/", "/", "i", "s", "1", "-", "s", "s", "l", ".", "m",
    "z", "s", "t", "a", "t", "i", "c", ".", "c", "o", "m", "/", "i", "m", "a", "g", "e",
    "/", "t", "h", "u", "m", "b", "/", "M", "u", "s", "i", "c", "1", "2", "5", "/", "v",
    "4", "/", "3", "f", "/", "8", "4", "/", "1", "4", "/", "3", "f", "8", "4", "1", "4",
    "6", "9", "-", "7", "4", "0", "4", "-", "6", "b", "9", "8", "-", "a", "8", "f", "9",
    "-", "4", "f", "8", "b", "1", "a", "3", "c", "3", "d", "4", "b", "/", "s", "o", "u",
    "r", "c", "e", "/", "3", "0", "0", "x", "3", "0", "0", "b", "b", ".", "j", "p", "g">>,
   preview |-> "https://audio-ssl.itunes.apple.com/itunes-assets/AudioPreview116/v4/ab/86/52/ab8652a7-62d0-9fba-1f28-7a92c8d18518/mzaf_12184443632225615168.plus.aac.p.m4a",
   duration |-> 234],
  [id |-> 1450330685,
   title |->     <<"B", "l", "i", "n", "d", "i", "n", "g", " ", "L", "i", "g", "h", "t", "s">>,
   artist |-> <<"T", "h", "e", " ", "W", "e", "e", "k", "n", "d">>,
   album |-> <<"A", "f", "t", "e", "r", " ", "H", "o", "u", "r", "s">>,
   albumCover |->
    <<"h", "t", "t", "p", "s", ":", "/", "/", "i", "s", "1", "-", "s", "s", "l", ".", "m",
    "z", "s", "t", "a", "t", "i", "c", ".", "c", "o", "m", "/", "i", "m", "a", "g", "e",
    "/", "t", "h", "u", "m", "b", "/", "M", "u", "s", "i", "c", "1", "1", "5", "/", "v",
    "4", "/", "1", "c", "/", "5", "0", "/", "d", "e", "/", "1", "c", "5", "0", "d", "e",
    "8", "f", "-", "5", "e", "e", "5", "-", "5", "a", "3", "1", "-", "5", "c", "8", "3",
    "-", "9", "b", "1", "c", "6", "e", "0", "d", "3", "5", "5", "8", "/", "s", "o", "u",
    "r", "c", "e", "/", "3", "0", "0", "x", "3", "0", "0", "b", "b", ".", "j", "p", "g">>,
   preview |-> "",
   duration |-> 200],
  [id |-> 1508562704,
   title |-> <<"L", "e", "v", "i", "t", "a", "t", "i", "n", "g">>,
   artist |-> <<"D", "u", "a", " ", "L", "i", "p", "a">>,
   album |->     <<"F", "u", "t", "u", "r", "e", " ", "N", "o", "s", "t", "a", "l", "g", "i", "a">>,
   albumCover |->
    <<"h", "t", "t", "p", "s", ":", "/", "/", "i", "s", "1", "-", "s", "s", "l", ".", "m",
    "z", "s", "t", "a", "t", "i", "c", ".", "c", "o", "m", "/", "i", "m", "a", "g", "e",
    "/", "t", "h", "u", "m", "b", "/", "M", "u", "s", "i", "c", "1", "1", "4", "/", "v",
    "4", "/", "3", "f", "/", "e", "e", "/", "7", "5", "/", "3", "f", "e", "e", "7", "5",
    "c", "6", "-", "c", "8", "c", "c", "-", "2", "e", "b", "0", "-", "3", "e", "6", "4",
    "-", "c", "e", "3", "d", "6", "e", "8", "f", "8", "d", "6", "a", "/", "s", "o", "u",
    "r", "c", "e", "/", "3", "0", "0", "x", "3", "0", "0", "b", "b", ".", "j", "p", "g">>,
   preview |-> "",
   duration |-> 203] >>

----------------------------------------------------------------------------
(* The catalog's raw responses: the inputs the network can deliver.        *)

\* One entry of `results`.  nul marks a JSON null in the array.
RawTrack(id, name, artist, coll, art, prev, kind, ms) ==
    [nul |-> FALSE, trackId |-> id, trackName |-> name, artistName |-> artist,
     collectionName |-> coll, artworkUrl100 |-> art, previewUrl |-> prev,
     kind |-> kind, trackTimeMillis |-> ms]

NullTrack ==
    [nul |-> TRUE, trackId |-> 0, trackName |-> <<>>, artistName |-> <<>>,
     collectionName |-> <<>>, artworkUrl100 |-> <<>>, previewUrl |-> "",
     kind |-> "", trackTimeMillis |-> 0]

\* Longest raw text field delivered: one character more than the code keeps.
LongLen == 101
LongName == [i \in 1..LongLen |-> "z"]

TrackA ==
    RawTrack(101, <<"E", "d", "e", "n">>, <<"A", "b", "e">>, <<"L", "P">>,
             <<"a", "/", "1", "0", "0", "x", "1", "0", "0", "b", "b">>,
             "p101", "song", 200500)
\* The same track identifier as TrackA with other fields.
TrackA2 ==
    RawTrack(101, <<"E", "d", "e", "n", "2">>, <<"B", "e", "a">>, <<"E", "P">>,
             <<"b", "/", "6", "0", "x", "6", "0">>, "p101b", "song", 99999)
\* Every optional field absent.
TrackB == RawTrack(102, <<>>, <<>>, <<>>, <<>>, "p102", "song", 0)
TrackNoPreview == RawTrack(103, <<"N">>, <<"N">>, <<>>, <<>>, "", "song", 1000)
TrackVideo == RawTrack(104, <<"V">>, <<"V">>, <<>>, <<>>, "p104", "music-video", 1000)
TrackNoId == RawTrack(0, <<"I">>, <<"I">>, <<>>, <<>>, "p0", "song", 1000)
TrackLong == RawTrack(105, LongName, LongName, LongName, <<>>, "p105", "song", 1999)
\* A run of n distinct well-formed tracks with identifiers from+1 .. from+n.
TrackRun(from, n) ==
    [i \in 1..n |-> RawTrack(from + i, <<"T">>, <<"U">>, <<>>, <<>>, "p", "song", 1000)]

\* Number of tracks of the largest response: one more than getPopularSongs keeps.
BigLen == 16

\* A parsed JSON body.  kind: "null" (the body is JSON null), "noResults"
\* (an object without `results`), "array" (`results` is the array items),
\* "string" (`results` is a non-empty string: it has a length and no filter).
Body(kind, items) == [kind |-> kind, items |-> items]

JsonNull == Body("null", <<>>)
NoResults == Body("noResults", <<>>)
EmptyResults == Body("array", <<>>)
ResultsString == Body("string", <<"o", "o", "p", "s">>)
ResultsWithNull == Body("array", <<TrackA, NullTrack>>)
BodyA == Body("array", <<TrackA, TrackNoPreview, TrackB, TrackVideo, TrackNoId>>)
BodyB == Body("array", <<TrackB, TrackA2, TrackLong>>)
BodyBig == Body("array", TrackRun(200, BigLen))

Bodies ==
    {JsonNull, NoResults, EmptyResults, ResultsString, ResultsWithNull,
     BodyA, BodyB, BodyBig}

\* The value of `null` where the code holds a body or no body.
Null == Body("none", <<>>)

----------------------------------------------------------------------------
(* parseITunesResponse, songService.ts lines 40-54.                        *)

\* !data?.results?.length
NoLength(data) ==
    \/ data.kind \in {"none", "null", "noResults"}
    \/ Len(data.items) = 0

\* t.previewUrl && t.kind === 'song' && t.trackId
KeepTrack(t) == t.previewUrl # "" /\ t.kind = "song" /\ t.trackId # 0

\* The object literal of the map callback.
ToSong(t) ==
    [id |-> t.trackId,
     title |-> SliceTo(OrElse(t.trackName, Unknown), FieldLimit),
     artist |-> SliceTo(OrElse(t.artistName, UnknownArtist), FieldLimit),
     album |-> SliceTo(t.collectionName, FieldLimit),
     albumCover |-> Replace(t.artworkUrl100, LowRes, HighRes),
     preview |-> t.previewUrl,
     duration |-> (IF t.trackTimeMillis = 0 THEN DefaultMillis
                   ELSE t.trackTimeMillis) \div 1000]

\* The call either returns songs or throws a TypeError (threw): results.filter
\* does not exist on a string, and reading t.previewUrl of null throws.
parseITunesResponse(data) ==
    IF NoLength(data) THEN [threw |-> FALSE, songs |-> <<>>]
    ELSE IF data.kind = "string" THEN [threw |-> TRUE, songs |-> <<>>]
    ELSE IF \E i \in 1..Len(data.items) : data.items[i].nul
    THEN [threw |-> TRUE, songs |-> <<>>]
    ELSE LET kept == SelectSeq(data.items, KeepTrack)
         IN  [threw |-> FALSE, songs |-> [i \in 1..Len(kept) |-> ToSong(kept[i])]]

----------------------------------------------------------------------------
(* fetchFromITunes, songService.ts lines 57-86.                            *)

\* How one network attempt ends.  "ok": a 2xx response whose body parses to
\* data; "http": a non-2xx status (throw new Error); "net": fetch rejects with
\* a transport error; "json": res.json() rejects; "abort": the 8 s timer
\* fires controller.abort() and fetch rejects with a DOMException AbortError.
Ok(data) == [kind |-> "ok", data |-> data]
Fail(kind) == [kind |-> kind, data |-> Null]

Failures == {Fail("http"), Fail("net"), Fail("json"), Fail("abort")}
Outcomes == {Ok(b) : b \in Bodies} \cup Failures

\* error instanceof DOMException && error.name === 'AbortError'
IsAbortError(o) == o.kind = "abort"

\* A retry decision that does not look at the kind of the error.
ShouldRetryAnyError(o, retries) == retries > 0

\* A retry decision that stops one retry early.
ShouldRetryOffByOne(o, retries) == retries > 1 /\ ~IsAbortError(o)

\* retries > 0 && !(abort)
ShouldRetry(o, retries) == retries > 0 /\ ~IsAbortError(o)

\* The call with the outcomes of its attempts given in order by outs.  The
\* result records the value the promise resolves to, the number of network
\* attempts issued and the number of 500 ms delays taken.  No path rejects.
RECURSIVE fetchFromITunes(_, _)
fetchFromITunes(outs, retries) ==
    LET o == Head(outs) IN
    IF o.kind = "ok"
    THEN [value |-> o.data, attempts |-> 1, delays |-> 0, rejected |-> FALSE]
    ELSE IF ShouldRetry(o, retries)
    THEN LET r == fetchFromITunes(Tail(outs), retries - 1)
         IN  [r EXCEPT !.attempts = @ + 1, !.delays = @ + 1]
    ELSE [value |-> Null, attempts |-> 1, delays |-> 0, rejected |-> FALSE]

\* The attempt after which the call ends: a success, an abort, or any failure
\* when no retry is left.
Final(o, retries) == o.kind = "ok" \/ ~ShouldRetry(o, retries)

\* The attempt scripts a call with `retries` retries can consume when its
\* attempts end as one of outcomes: the outcomes of the attempts in order, up
\* to the attempt the call ends with.
RECURSIVE Scripts(_, _)
Scripts(outcomes, retries) ==
    {<<o>> : o \in {x \in outcomes : Final(x, retries)}}
    \cup (IF retries = 0 THEN {}
          ELSE {<<o>> \o s : o \in {x \in outcomes : ~Final(x, retries)},
                             s \in Scripts(outcomes, retries - 1)})

----------------------------------------------------------------------------
(* State.                                                                  *)

VARIABLES
    now,            \* the value Date.now() returns
    searchCache,    \* the Map searchCache: key -> CacheEntry, on the keys present
    popularCache,   \* the slot popularCache: a CacheEntry or NoEntry (null)
    search,         \* the searchSongs call of each caller
    lastSearch,     \* the searchSongs call that completed last
    popularCalls,   \* the getPopularSongs call of each caller
    fetched,        \* the last fetchFromITunes call made on its own
    link,           \* the processMusicLink call
    noteDoc,        \* the stored document of the note
    viewCalls       \* the incrementViews call of each viewer

vars ==
    <<now, searchCache, popularCache, search, lastSearch, popularCalls, fetched,
      link, noteDoc, viewCalls>>

\* null / undefined where the code holds a CacheEntry or none.
NoEntry == [data |-> <<>>, timestamp |-> -1]

CacheEntry(data, timestamp) == [data |-> data, timestamp |-> timestamp]

\* A validity test that never expires an entry.
isCacheValidAnyAge(entry, ttl) == entry # NoEntry

\* A validity test that still accepts an entry at the instant its TTL is
\* reached.
isCacheValidInclusive(entry, ttl) ==
    IF entry = NoEntry THEN FALSE
    ELSE now - entry.timestamp <= ttl

\* isCacheValid, lines 15-18.
isCacheValid(entry, ttl) ==
    IF entry = NoEntry THEN FALSE
    ELSE now - entry.timestamp < ttl

\* searchCache.get(key)
CacheGet(key) == IF key \in DOMAIN searchCache THEN searchCache[key] ELSE NoEntry

\* A set that stores nothing.
CacheSetNothing(key, entry) == searchCache

\* A set that appends the new songs to those of the entry it finds.
CacheSetMerged(key, entry) ==
    [k \in DOMAIN searchCache \cup {key} |->
        IF k # key THEN searchCache[k]
        ELSE IF key \in DOMAIN searchCache
        THEN [entry EXCEPT !.data = searchCache[key].data \o entry.data]
        ELSE entry]

\* searchCache.set(key, entry): the entry of the key is replaced whole.
CacheSet(key, entry) ==
    [k \in DOMAIN searchCache \cup {key} |->
        IF k = key THEN entry ELSE searchCache[k]]

\* What a lookup finds: no entry ("none"), an entry younger than its TTL
\* ("fresh") or one that has reached it ("expired").
Found(entry, ttl) ==
    IF entry = NoEntry THEN "none"
    ELSE IF now - entry.timestamp >= ttl THEN "expired" ELSE "fresh"

----------------------------------------------------------------------------
(* searchSongs, lines 126-151.                                             *)

Callers == {1}

\* What a call records of the call it directly follows, when that call had
\* the same key and completed less than the search TTL before: whether it
\* had the same query, whether it wrote its result to the cache, and its
\* network attempts.
NoPrev == [follows |-> FALSE, sameQuery |-> FALSE, cached |-> FALSE, attempts |-> 0]

\* No call completed yet.
NoCall == [query |-> <<>>, at |-> -1, cached |-> FALSE, attempts |-> 0]

\* A call: pc is "idle", "fetching" (awaiting fetchFromITunes) or "done";
\* src tells where the result came from ("short", "cache", "network",
\* "fallback", or "threw" when the promise rejected); lookedUp tells whether
\* searchCache.get ran, found is what it found, requests and
\* attempts count the fetchFromITunes calls and their network attempts, got
\* is the value fetchFromITunes resolved to.
Idle ==
    [pc |-> "idle", query |-> <<>>, lookedUp |-> FALSE, found |-> "none",
     requests |-> 0, attempts |-> 0, got |-> Null, result |-> <<>>,
     src |-> "none", prev |-> NoPrev]

\* A key that is the query as typed.
KeyOfRaw(query) == query

\* const key = trimmed.toLowerCase()
KeyOf(query) == ToLowerCase(Trim(query))

\* The length test on the query as typed.
TooShortUntrimmed(query) == query = <<>> \/ Len(query) < MinQueryLen

\* !trimmed || trimmed.length < 2
TooShort(query) == Trim(query) = <<>> \/ Len(Trim(query)) < MinQueryLen

\* A fallback filter that looks at titles only.
FallbackSearchTitleOnly(key) ==
    SelectSeq(FALLBACK_SONGS, LAMBDA s : Includes(ToLowerCase(s.title), key))

\* FALLBACK_SONGS.filter(title or artist includes key)
FallbackSearch(key) ==
    SelectSeq(FALLBACK_SONGS,
              LAMBDA s : \/ Includes(ToLowerCase(s.title), key)
                         \/ Includes(ToLowerCase(s.artist), key))

\* What a completing call leaves behind for the call after it.
Summary(call) ==
    [query |-> call.query, at |-> now, cached |-> call.src = "network",
     attempts |-> call.attempts]

\* The call this one directly follows: the one that completed last, when no
\* call is in flight.
Follows(query) ==
    IF /\ lastSearch # NoCall
       /\ \A d \in DOMAIN search : search[d].pc # "fetching"
       /\ KeyOf(lastSearch.query) = KeyOf(query)
       /\ now - lastSearch.at < SEARCH_CACHE_TTL
    THEN [follows |-> TRUE, sameQuery |-> lastSearch.query = query,
          cached |-> lastSearch.cached, attempts |-> lastSearch.attempts]
    ELSE NoPrev

\* The call up to its first await: the length test, the cache lookup and, on
\* a miss, the request being issued.
SearchStart(c, query) ==
    /\ search[c].pc # "fetching"
    /\ LET call == [Idle EXCEPT !.query = query, !.prev = Follows(query)]
           cached == CacheGet(KeyOf(query))
           looked == [call EXCEPT !.lookedUp = TRUE, !.found = Found(cached, SEARCH_CACHE_TTL)]
           done ==
               IF TooShort(query)
               THEN [call EXCEPT !.pc = "done", !.src = "short"]
               ELSE IF isCacheValid(cached, SEARCH_CACHE_TTL)
               THEN [looked EXCEPT !.pc = "done", !.src = "cache",
                                   !.result = cached.data]
               ELSE [looked EXCEPT !.pc = "fetching", !.requests = 1]
       IN  /\ search' = [search EXCEPT ![c] = done]
           /\ lastSearch' = IF done.pc = "done" THEN Summary(done) ELSE lastSearch
    /\ UNCHANGED <<now, searchCache, popularCache, popularCalls, fetched, link,
                   noteDoc, viewCalls>>

\* A completion that stores whatever list the call returns, the filtered
\* built-in songs included.
SearchSettleStoresAll(c, script) ==
    /\ search[c].pc = "fetching"
    /\ LET call == search[c]
           key == KeyOf(call.query)
           got == fetchFromITunes(script, DefaultRetries)
           parsed == parseITunesResponse(got.value)
           made == [call EXCEPT !.pc = "done", !.attempts = got.attempts,
                                !.got = got.value]
           done ==
               IF got.rejected \/ parsed.threw
               THEN [made EXCEPT !.src = "threw"]
               ELSE IF Len(parsed.songs) # 0
               THEN [made EXCEPT !.src = "network", !.result = parsed.songs]
               ELSE [made EXCEPT !.src = "fallback", !.result = FallbackSearch(key)]
       IN  /\ search' = [search EXCEPT ![c] = done]
           /\ lastSearch' = Summary(done)
           /\ searchCache' =
                 IF done.src # "threw"
                 THEN CacheSet(key, CacheEntry(done.result, now))
                 ELSE searchCache
    /\ UNCHANGED <<now, popularCache, popularCalls, fetched, link,
                   noteDoc, viewCalls>>

\* The rest of the call, once fetchFromITunes has resolved: the attempts of
\* the request end as script says.
SearchSettle(c, script) ==
    /\ search[c].pc = "fetching"
    /\ LET call == search[c]
           key == KeyOf(call.query)
           got == fetchFromITunes(script, DefaultRetries)
           parsed == parseITunesResponse(got.value)
           made == [call EXCEPT !.pc = "done", !.attempts = got.attempts,
                                !.got = got.value]
           done ==
               IF got.rejected \/ parsed.threw
               THEN [made EXCEPT !.src = "threw"]
               ELSE IF Len(parsed.songs) # 0
               THEN [made EXCEPT !.src = "network", !.result = parsed.songs]
               ELSE [made EXCEPT !.src = "fallback", !.result = FallbackSearch(key)]
       IN  /\ search' = [search EXCEPT ![c] = done]
           /\ lastSearch' = Summary(done)
           /\ searchCache' =
                 IF done.src = "network"
                 THEN CacheSet(key, CacheEntry(parsed.songs, now))
                 ELSE searchCache
    /\ UNCHANGED <<now, popularCache, popularCalls, fetched, link,
                   noteDoc, viewCalls>>

----------------------------------------------------------------------------
(* cleanupCache, lines 21-32, run by setInterval every 10 minutes.  The     *)
(* phase of the interval against the instants of the model is not fixed,   *)
(* so a sweep may run at any instant.                                      *)

\* A sweep that empties both caches whatever the age of their entries.
cleanupCacheAll ==
    /\ searchCache' = <<>>
    /\ popularCache' = NoEntry
    /\ UNCHANGED <<now, search, lastSearch, popularCalls, fetched, link,
                   noteDoc, viewCalls>>

cleanupCache ==
    /\ searchCache' =
          [k \in {j \in DOMAIN searchCache :
                     ~(now - searchCache[j].timestamp >= SEARCH_CACHE_TTL)}
             |-> searchCache[k]]
    /\ popularCache' =
          IF popularCache # NoEntry
             /\ now - popularCache.timestamp >= POPULAR_CACHE_TTL
          THEN NoEntry ELSE popularCache
    /\ UNCHANGED <<now, search, lastSearch, popularCalls, fetched, link,
                   noteDoc, viewCalls>>

----------------------------------------------------------------------------
(* The clock.                                                              *)

Tick(t) ==
    /\ t > now
    /\ now' = t
    /\ UNCHANGED <<searchCache, popularCache, search, lastSearch, popularCalls, fetched, link,
                   noteDoc, viewCalls>>

----------------------------------------------------------------------------
(* fetchFromITunes called on its own.                                      *)

NotFetched ==
    [outs |-> <<>>, retries |-> 0,
     res |-> [value |-> Null, attempts |-> 0, delays |-> 0, rejected |-> FALSE]]

FetchCall(script) ==
    /\ fetched' = [outs |-> script, retries |-> DefaultRetries,
                   res |-> fetchFromITunes(script, DefaultRetries)]
    /\ UNCHANGED <<now, searchCache, popularCache, search, lastSearch, popularCalls, link,
                   noteDoc, viewCalls>>

----------------------------------------------------------------------------
(* getPopularSongs, lines 89-123.                                          *)

\* No deduplication.
UniqueKeepAll(allSongs) == allSongs

\* Array.from(new Map(allSongs.map(s => [s.id, s])).values()).  The Map is
\* filled from the first entry to the last; setting a key it already holds
\* leaves the key at its place and replaces its value.  Its values are
\* listed in the order of the keys: keys are the places of allSongs where
\* an identifier is first set, last(i) the place where it is last set.
Unique(allSongs) ==
    LET n == Len(allSongs)
        keys == SelectSeq([i \in 1..n |-> i],
                          LAMBDA i : \A j \in 1..(i - 1) : allSongs[j].id # allSongs[i].id)
        last(i) == CHOOSE j \in i..n :
                      /\ allSongs[j].id = allSongs[i].id
                      /\ \A k \in (j + 1)..n : allSongs[k].id # allSongs[i].id
    IN  [k \in 1..Len(keys) |-> allSongs[last(keys[k])]]

\* One element of the array Promise.allSettled resolves to, or a promise
\* that has not settled yet ("pending").
Pending == [status |-> "pending", value |-> Null]
Settled(got) ==
    [status |-> IF got.rejected THEN "rejected" ELSE "fulfilled", value |-> got.value]

\* result.status === 'fulfilled' && result.value
Usable(r) == r.status = "fulfilled" /\ r.value.kind \notin {"none", "null"}

\* A loop that gives up on every result as soon as one request has failed.
CollectAllOrNothing(results, i) ==
    IF \E j \in 1..Len(results) : ~Usable(results[j])
    THEN [threw |-> FALSE, songs |-> <<>>]
    ELSE [threw |-> \E j \in 1..Len(results) : parseITunesResponse(results[j].value).threw,
          songs |-> parseITunesResponse(results[1].value).songs
                    \o parseITunesResponse(results[2].value).songs
                    \o parseITunesResponse(results[3].value).songs]

\* The for loop over results: the songs pushed to allSongs from results[i..],
\* and whether a parseITunesResponse call threw on the way.
RECURSIVE Collect(_, _)
Collect(results, i) ==
    IF i > Len(results) THEN [threw |-> FALSE, songs |-> <<>>]
    ELSE LET rest == Collect(results, i + 1)
             here == IF Usable(results[i]) THEN parseITunesResponse(results[i].value)
                     ELSE [threw |-> FALSE, songs |-> <<>>]
         IN  [threw |-> here.threw \/ rest.threw, songs |-> here.songs \o rest.songs]

PopularIdle ==
    [pc |-> "idle", found |-> "none", requests |-> 0,
     results |-> [i \in 1..NumQueries |-> Pending], result |-> <<>>, src |-> "none"]

\* The call of the first caller.
popular == popularCalls[1]

\* The call up to its first await: the cache test and, on a miss, the three
\* requests being issued together.
PopularStart(c) ==
    /\ popularCalls[c].pc # "waiting"
    /\ LET call == [PopularIdle EXCEPT !.found = Found(popularCache, POPULAR_CACHE_TTL)] IN
       popularCalls' = [popularCalls EXCEPT ![c] =
          IF isCacheValid(popularCache, POPULAR_CACHE_TTL)
             /\ Len(popularCache.data) > 0
          THEN [call EXCEPT !.pc = "done", !.src = "cache",
                            !.result = popularCache.data]
          ELSE [call EXCEPT !.pc = "waiting", !.requests = NumQueries]]
    /\ UNCHANGED <<now, searchCache, popularCache, search, lastSearch, fetched, link,
                   noteDoc, viewCalls>>

\* The request of query i settles; the requests settle in any order.
PopularSettle(c, i, script) ==
    /\ popularCalls[c].pc = "waiting"
    /\ popularCalls[c].results[i] = Pending
    /\ LET got == fetchFromITunes(script, DefaultRetries) IN
       popularCalls' = [popularCalls EXCEPT ![c].results[i] = Settled(got)]
    /\ UNCHANGED <<now, searchCache, popularCache, search, lastSearch, fetched, link,
                   noteDoc, viewCalls>>

\* Promise.allSettled resolves once every request has settled; the rest of
\* the call runs.
PopularFinish(c) ==
    /\ popularCalls[c].pc = "waiting"
    /\ \A i \in 1..NumQueries : popularCalls[c].results[i] # Pending
    /\ LET got == Collect(popularCalls[c].results, 1)
           unique == Unique(got.songs)
           finalSongs == SliceTo(unique, PopularLimit)
       IN  IF got.threw
           THEN /\ popularCalls' = [popularCalls EXCEPT ![c].pc = "done", ![c].src = "threw"]
                /\ UNCHANGED popularCache
           ELSE IF Len(finalSongs) > 0
           THEN /\ popularCalls' = [popularCalls EXCEPT ![c].pc = "done",
                                                        ![c].src = "network",
                                                        ![c].result = finalSongs]
                /\ popularCache' = CacheEntry(finalSongs, now)
           ELSE /\ popularCalls' = [popularCalls EXCEPT ![c].pc = "done",
                                                        ![c].src = "fallback",
                                                        ![c].result = FALLBACK_SONGS]
                /\ UNCHANGED popularCache
    /\ UNCHANGED <<now, searchCache, search, lastSearch, fetched, link,
                   noteDoc, viewCalls>>

----------------------------------------------------------------------------
(* The link resolver, lines 154-230.                                       *)

\* The least of the places where a pattern matches, 0 when it matches
\* nowhere: where a regular expression first matches.
FirstPlace(hits) ==
    IF hits = {} THEN 0 ELSE CHOOSE i \in hits : \A j \in hits : i <= j

Digits == {"0", "1", "2", "3", "4", "5", "6", "7", "8", "9"}
Letters ==
    {"a", "b", "c", "d", "e", "f", "g", "h", "i", "j", "k", "l", "m", "n", "o",
     "p", "q", "r", "s", "t", "u", "v", "w", "x", "y", "z", "A", "B", "C", "D",
     "E", "F", "G", "H", "I", "J", "K", "L", "M", "N", "O", "P", "Q", "R", "S",
     "T", "U", "V", "W", "X", "Y", "Z"}
\* [a-zA-Z0-9_-] and [a-zA-Z0-9]
IdChars == Letters \cup Digits \cup {"_", "-"}
AlphaNum == Letters \cup Digits

\* The longest run of characters of class starting at place i of s.
RunFrom(s, i, class) ==
    LET stops == {j \in i..Len(s) : s[j] \notin class}
        end == IF stops = {} THEN Len(s) + 1 ELSE CHOOSE j \in stops : \A k \in stops : j <= k
    IN  SubSeq(s, i, end - 1)

\* The value of one decimal digit.
DigitValue(d) ==
    CASE d = "0" -> 0 [] d = "1" -> 1 [] d = "2" -> 2 [] d = "3" -> 3
      [] d = "4" -> 4 [] d = "5" -> 5 [] d = "6" -> 6 [] d = "7" -> 7
      [] d = "8" -> 8 [] d = "9" -> 9

\* A conversion that reads the last digit only.
parseIntLastDigit(ds) == DigitValue(ds[Len(ds)])

\* parseInt of a run of decimal digits.
RECURSIVE parseInt(_)
parseInt(ds) ==
    IF ds = <<>> THEN 0
    ELSE 10 * parseInt(SubSeq(ds, 1, Len(ds) - 1)) + DigitValue(ds[Len(ds)])

YouTubeWatch ==
    <<"y", "o", "u", "t", "u", "b", "e", ".", "c", "o", "m", "/", "w", "a",
      "t", "c", "h", "?", "v", "=">>
YouTubeShort ==
    <<"y", "o", "u", "t", "u", ".", "b", "e", "/">>
SpotifyTrack ==
    <<"s", "p", "o", "t", "i", "f", "y", ".", "c", "o", "m", "/", "t", "r",
      "a", "c", "k", "/">>
StartParam == <<"t", "=">>

\* Length of a video identifier.
VideoIdLen == 11

\* undefined where the code holds a start time or none.
NoStart == -1

\* null where the code holds a parsed link or a SongData.
NoMatch == [matched |-> FALSE, id |-> <<>>, startTime |-> NoStart]

\* parseYouTubeUrl, lines 154-160.  The first place where one of the two
\* prefixes is followed by 11 identifier characters gives the video id; the
\* first [?&]t= followed by a digit gives the start time.
parseYouTubeUrl(url) ==
    LET idAt(i, pre) ==
            /\ MatchesAt(url, pre, i)
            /\ i + Len(pre) + VideoIdLen - 1 <= Len(url)
            /\ \A k \in 0..(VideoIdLen - 1) : url[i + Len(pre) + k] \in IdChars
        at == FirstPlace({i \in 1..Len(url) :
                              idAt(i, YouTubeWatch) \/ idAt(i, YouTubeShort)})
        prefix == IF idAt(at, YouTubeWatch) THEN YouTubeWatch ELSE YouTubeShort
        startAt == FirstPlace({i \in 1..Len(url) :
                       /\ i + 3 <= Len(url)
                       /\ url[i] \in {"?", "&"}
                       /\ MatchesAt(url, StartParam, i + 1)
                       /\ url[i + 3] \in Digits})
    IN  IF at = 0 THEN NoMatch
        ELSE [matched |-> TRUE,
              id |-> SubSeq(url, at + Len(prefix), at + Len(prefix) + VideoIdLen - 1),
              startTime |-> IF startAt = 0 THEN NoStart
                            ELSE parseInt(RunFrom(url, startAt + 3, Digits))]

\* A pattern that accepts an empty track id.
parseSpotifyUrlEmptyId(url) ==
    LET at == FirstPlace({i \in 1..Len(url) : MatchesAt(url, SpotifyTrack, i)})
    IN  IF at = 0 THEN NoMatch
        ELSE [matched |-> TRUE,
              id |-> RunFrom(url, at + Len(SpotifyTrack), AlphaNum),
              startTime |-> NoStart]

\* parseSpotifyUrl, lines 163-166.
parseSpotifyUrl(url) ==
    LET at == FirstPlace({i \in 1..Len(url) :
                  /\ MatchesAt(url, SpotifyTrack, i)
                  /\ i + Len(SpotifyTrack) <= Len(url)
                  /\ url[i + Len(SpotifyTrack)] \in AlphaNum})
    IN  IF at = 0 THEN NoMatch
        ELSE [matched |-> TRUE,
              id |-> RunFrom(url, at + Len(SpotifyTrack), AlphaNum),
              startTime |-> NoStart]

\* The link of the specification.
UrlShortStart ==
    <<"h", "t", "t", "p", "s", ":", "/", "/", "y", "o", "u", "t", "u", ".",
      "b", "e", "/", "d", "Q", "w", "4", "w", "9", "W", "g", "X", "c", "Q",
      "?", "t", "=", "4", "3">>
\* A watch link without a start time.
UrlWatch ==
    <<"h", "t", "t", "p", "s", ":", "/", "/", "w", "w", "w", ".", "y", "o",
      "u", "t", "u", "b", "e", ".", "c", "o", "m", "/", "w", "a", "t", "c",
      "h", "?", "v", "=", "d", "Q", "w", "4", "w", "9", "W", "g", "X", "c",
      "Q">>
\* A start time of zero.
UrlStartZero ==
    <<"h", "t", "t", "p", "s", ":", "/", "/", "y", "o", "u", "t", "u", ".",
      "b", "e", "/", "d", "Q", "w", "4", "w", "9", "W", "g", "X", "c", "Q",
      "?", "t", "=", "0">>
\* A start time given after & and followed by a unit.
UrlWatchStart ==
    <<"h", "t", "t", "p", "s", ":", "/", "/", "w", "w", "w", ".", "y", "o",
      "u", "t", "u", "b", "e", ".", "c", "o", "m", "/", "w", "a", "t", "c",
      "h", "?", "v", "=", "d", "Q", "w", "4", "w", "9", "W", "g", "X", "c",
      "Q", "&", "t", "=", "7", "s">>
\* A Spotify track link (the t parameter is not read).
UrlSpotify ==
    <<"h", "t", "t", "p", "s", ":", "/", "/", "o", "p", "e", "n", ".", "s",
      "p", "o", "t", "i", "f", "y", ".", "c", "o", "m", "/", "t", "r", "a",
      "c", "k", "/", "4", "u", "L", "U", "6", "h", "M", "C", "?", "t", "=",
      "4", "3">>
\* A link that matches both platforms.
UrlBoth ==
    <<"h", "t", "t", "p", "s", ":", "/", "/", "o", "p", "e", "n", ".", "s",
      "p", "o", "t", "i", "f", "y", ".", "c", "o", "m", "/", "t", "r", "a",
      "c", "k", "/", "4", "u", "L", "U", "?", "u", "=", "y", "o", "u", "t",
      "u", ".", "b", "e", "/", "d", "Q", "w", "4", "w", "9", "W", "g", "X",
      "c", "Q">>
\* A link of neither platform.
UrlOther ==
    <<"h", "t", "t", "p", "s", ":", "/", "/", "e", "x", "a", "m", "p", "l",
      "e", ".", "c", "o", "m", "/", "f", "o", "o">>
\* A video id of 7 characters.
UrlShortId ==
    <<"h", "t", "t", "p", "s", ":", "/", "/", "y", "o", "u", "t", "u", ".",
      "b", "e", "/", "d", "Q", "w", "4", "w", "9", "W", "?", "t", "=", "4",
      "3">>
\* A track path without an id.
UrlNoTrack ==
    <<"h", "t", "t", "p", "s", ":", "/", "/", "o", "p", "e", "n", ".", "s",
      "p", "o", "t", "i", "f", "y", ".", "c", "o", "m", "/", "t", "r", "a",
      "c", "k", "/">>

Urls ==
    {UrlShortStart, UrlWatch, UrlStartZero, UrlWatchStart, UrlSpotify,
     UrlBoth, UrlOther, UrlShortId, UrlNoTrack}

\* The separator of a Spotify embed title.
MiddleDot == "·"

\* A parsed oEmbed body: JSON null, or an object with or without a title
\* string and with or without a thumbnail_url (absent: empty).
EmbedBody(title, thumb) ==
    [kind |-> "object", hasTitle |-> TRUE, title |-> title, thumbnail_url |-> thumb]
EmbedNoTitle(thumb) ==
    [kind |-> "object", hasTitle |-> FALSE, title |-> <<>>, thumbnail_url |-> thumb]
EmbedNull ==
    [kind |-> "null", hasTitle |-> FALSE, title |-> <<>>, thumbnail_url |-> <<>>]

\* How the embed fetch ends.  "ok": a 2xx response whose body parses to
\* data; "http": a non-2xx status; "net": fetch rejects; "json": res.json()
\* rejects.
EmbedOk(data) == [kind |-> "ok", data |-> data]
EmbedFail(kind) == [kind |-> kind, data |-> EmbedNull]
NoResponse == EmbedFail("none")

\* null where the code holds a SongData or none.
NoSong ==
    [type |-> "null", id |-> <<>>, title |-> <<>>, artist |-> <<>>,
     albumCover |-> <<>>, startTime |-> 0, endTime |-> 0]

\* The delay of the abort timer of fetchFromITunes, in milliseconds.
TimeoutMs == 8000

\* Length in seconds of the playback window.
WindowLen == 30

CoverPrefix ==
    <<"h", "t", "t", "p", "s", ":", "/", "/", "i", "m", "g", ".", "y", "o",
      "u", "t", "u", "b", "e", ".", "c", "o", "m", "/", "v", "i", "/">>
CoverSuffix ==
    <<"/", "m", "a", "x", "r", "e", "s", "d", "e", "f", "a", "u", "l", "t",
      ".", "j", "p", "g">>

\* title.split('-'): the places of the hyphens, and the first two parts.
Hyphens(title) == {i \in 1..Len(title) : title[i] = "-"}
NthHyphen(title, n) ==
    LET hs == Hyphens(title)
        at == {i \in hs : Cardinality({j \in hs : j <= i}) = n}
    IN  IF at = {} THEN Len(title) + 1 ELSE CHOOSE i \in at : TRUE
Part0(title) == SubSeq(title, 1, NthHyphen(title, 1) - 1)
Part1(title) == SubSeq(title, NthHyphen(title, 1) + 1, NthHyphen(title, 2) - 1)

\* fetchYouTubeInfo, lines 169-189, when the fetch ends as resp.  Reading
\* data.title of null, or calling split on a missing title, throws inside
\* the try and the catch returns null.
fetchYouTubeInfo(videoId, resp) ==
    IF resp.kind # "ok" THEN NoSong
    ELSE IF resp.data.kind = "null" \/ ~resp.data.hasTitle THEN NoSong
    ELSE LET title == resp.data.title
             part0 == Trim(Part0(title))
             part1 == IF Hyphens(title) = {} THEN <<>> ELSE Trim(Part1(title))
         IN  [type |-> "youtube",
              id |-> videoId,
              title |-> OrElse(part1, title),
              artist |-> OrElse(part0, UnknownArtist),
              albumCover |-> OrElse(resp.data.thumbnail_url,
                                    CoverPrefix \o videoId \o CoverSuffix),
              startTime |-> 0,
              endTime |-> WindowLen]

\* title.match(/(.+?)\s*·\s*(.+)/): the first group is the shortest start
\* of the title that white space and a middle dot follow, with at least
\* one character after the dot; the second group is the rest of the title
\* after the white space that follows the dot (the last character when
\* nothing but white space follows).
SpotifyMatch(title) ==
    LET dotAfter(k) ==
            {d \in (k + 1)..(Len(title) - 1) :
                /\ title[d] = MiddleDot
                /\ \A j \in (k + 1)..(d - 1) : IsSpace(title[j])}
        k == FirstPlace({i \in 1..Len(title) : dotAfter(i) # {}})
        d == CHOOSE x \in dotAfter(k) : TRUE
        spaces == RunFrom(title, d + 1, {" ", "\t", "\n"})
    IN  IF k = 0 THEN [matched |-> FALSE, first |-> <<>>, second |-> <<>>]
        ELSE [matched |-> TRUE,
              first |-> SubSeq(title, 1, k),
              second |-> IF d + Len(spaces) = Len(title)
                         THEN <<title[Len(title)]>>
                         ELSE SubSeq(title, d + Len(spaces) + 1, Len(title))]

\* fetchSpotifyInfo, lines 192-212.  Reading data.title of null throws and
\* the catch returns null; a missing title gives no match.
fetchSpotifyInfo(trackId, resp) ==
    IF resp.kind # "ok" THEN NoSong
    ELSE IF resp.data.kind = "null" THEN NoSong
    ELSE LET title == resp.data.title
             match == IF resp.data.hasTitle THEN SpotifyMatch(title)
                      ELSE [matched |-> FALSE, first |-> <<>>, second |-> <<>>]
         IN  [type |-> "spotify",
              id |-> trackId,
              title |-> IF match.matched THEN match.first ELSE OrElse(title, Unknown),
              artist |-> IF match.matched THEN match.second ELSE UnknownArtist,
              albumCover |-> resp.data.thumbnail_url,
              startTime |-> 0,
              endTime |-> WindowLen]

\* A processMusicLink call: pc is "idle", "fetching" (awaiting the embed
\* fetch) or "done"; platform, id and startTime are what the parsers found;
\* requests counts the network calls issued, waited the milliseconds spent
\* awaiting the fetch, resp is how the fetch ended.
LinkIdle ==
    [pc |-> "idle", url |-> <<>>, platform |-> "none", id |-> <<>>,
     startTime |-> NoStart, requests |-> 0, waited |-> 0, resp |-> NoResponse,
     result |-> NoSong]

\* The wait of the model advances in steps of WaitStep up to MaxWait.
WaitStep == 4000
MaxWait == 12000

\* A resolver that tests the Spotify pattern first.
LinkStartSpotifyFirst(url) ==
    /\ link.pc # "fetching"
    /\ LET yt == parseYouTubeUrl(url)
           sp == parseSpotifyUrl(url)
           call == [LinkIdle EXCEPT !.url = url]
       IN  link' =
              IF sp.matched
              THEN [call EXCEPT !.pc = "fetching", !.platform = "spotify", !.id = sp.id,
                                !.requests = 1]
              ELSE IF yt.matched
              THEN [call EXCEPT !.pc = "fetching", !.platform = "youtube", !.id = yt.id,
                                !.startTime = yt.startTime, !.requests = 1]
              ELSE [call EXCEPT !.pc = "done"]
    /\ UNCHANGED <<now, searchCache, popularCache, search, lastSearch, popularCalls, fetched,
                   noteDoc, viewCalls>>

\* processMusicLink, lines 215-230, up to its first await: the two parsers
\* in turn and, for a recognized link, the embed fetch being issued.
LinkStart(url) ==
    /\ link.pc # "fetching"
    /\ LET yt == parseYouTubeUrl(url)
           sp == parseSpotifyUrl(url)
           call == [LinkIdle EXCEPT !.url = url]
       IN  link' =
              IF yt.matched
              THEN [call EXCEPT !.pc = "fetching", !.platform = "youtube", !.id = yt.id,
                                !.startTime = yt.startTime, !.requests = 1]
              ELSE IF sp.matched
              THEN [call EXCEPT !.pc = "fetching", !.platform = "spotify", !.id = sp.id,
                                !.requests = 1]
              ELSE [call EXCEPT !.pc = "done"]
    /\ UNCHANGED <<now, searchCache, popularCache, search, lastSearch, popularCalls, fetched,
                   noteDoc, viewCalls>>

\* Time passes while the embed fetch is awaited: lines 171 and 194 pass no
\* signal to fetch and start no timer, so nothing ends the wait.
LinkWait ==
    /\ link.pc = "fetching"
    /\ link.waited < MaxWait
    /\ link' = [link EXCEPT !.waited = @ + WaitStep]
    /\ UNCHANGED <<now, searchCache, popularCache, search, lastSearch, popularCalls, fetched,
                   noteDoc, viewCalls>>

\* The embed fetch ends as resp and the rest of the call runs.  if (info &&
\* yt.startTime): a start time of 0 is falsy, as is undefined.
LinkSettle(resp) ==
    /\ link.pc = "fetching"
    /\ LET info == IF link.platform = "youtube" THEN fetchYouTubeInfo(link.id, resp)
                   ELSE fetchSpotifyInfo(link.id, resp)
           shifted ==
               IF /\ link.platform = "youtube"
                  /\ info # NoSong
                  /\ link.startTime # NoStart /\ link.startTime # 0
               THEN [info EXCEPT !.startTime = link.startTime,
                                 !.endTime = link.startTime + WindowLen]
               ELSE info
       IN  link' = [link EXCEPT !.pc = "done", !.resp = resp, !.result = shifted]
    /\ UNCHANGED <<now, searchCache, popularCache, search, lastSearch, popularCalls, fetched,
                   noteDoc, viewCalls>>

----------------------------------------------------------------------------
(* View counting, src/firebase.ts.                                          *)

\* The page loads that count a view of one note, each through one
\* incrementViews call.
NumViewers == 3
Viewers == 1..NumViewers

\* The document saveNote writes, lines 93-101: the counters start at 0 and
\* viewedAt at null.
SavedNote == [views |-> 0, viewCount |-> 0, viewed |-> FALSE]

\* An incrementViews call: pc is "idle", "read" (getDoc resolved, updateDoc
\* not yet), "done" or "failed" (an awaited call rejected and the catch
\* logged it); currentViews is what the call read.
ViewIdle == [pc |-> "idle", currentViews |-> 0]

\* incrementViews, lines 150-158: getDoc resolves with a snapshot of the
\* document, which exists, and the call keeps data().views || 0.
ViewRead(c) ==
    /\ viewCalls[c].pc = "idle"
    /\ viewCalls' = [viewCalls EXCEPT ![c] = [pc |-> "read", currentViews |-> noteDoc.views]]
    /\ UNCHANGED <<now, searchCache, popularCache, search, lastSearch, popularCalls,
                   fetched, link, noteDoc>>

\* incrementViews, lines 159-163: updateDoc stores the value read plus one in
\* both counters, whatever the document holds by then.
ViewWrite(c) ==
    /\ viewCalls[c].pc = "read"
    /\ noteDoc' = [views |-> viewCalls[c].currentViews + 1,
                   viewCount |-> viewCalls[c].currentViews + 1,
                   viewed |-> TRUE]
    /\ viewCalls' = [viewCalls EXCEPT ![c].pc = "done"]
    /\ UNCHANGED <<now, searchCache, popularCache, search, lastSearch, popularCalls,
                   fetched, link>>

\* incrementViews, lines 165-167: getDoc or updateDoc rejects; the catch logs
\* the error and the document is left as it is.
ViewFail(c) ==
    /\ viewCalls[c].pc \in {"idle", "read"}
    /\ viewCalls' = [viewCalls EXCEPT ![c].pc = "failed"]
    /\ UNCHANGED <<now, searchCache, popularCache, search, lastSearch, popularCalls,
                   fetched, link, noteDoc>>

----------------------------------------------------------------------------
(* Specifications.                                                         *)

Init ==
    /\ now = 0
    /\ searchCache = <<>>
    /\ popularCache = NoEntry
    /\ search = [c \in Callers |-> Idle]
    /\ lastSearch = NoCall
    /\ popularCalls = [c \in Callers |-> PopularIdle]
    /\ fetched = NotFetched
    /\ link = LinkIdle
    /\ noteDoc = SavedNote
    /\ viewCalls = [c \in Viewers |-> ViewIdle]

\* The queries typed: two spellings of one key (it matches the fallback list
\* by artist), a key that matches it by title and by artist, and two queries
\* shorter than two characters once trimmed.
Queries ==
    {<<"e", "d">>, <<" ", "E", "d", " ">>, <<"l", "i">>, <<"e", " ">>, <<" ", " ">>}

\* How the attempts of a search request end.
SearchOutcomes ==
    {Ok(BodyA), Ok(EmptyResults), Ok(NoResults), Ok(ResultsWithNull),
     Fail("http"), Fail("abort")}
SearchScripts == Scripts(SearchOutcomes, DefaultRetries)

\* How the attempts of a popular sub-query end.
PopularOutcomes ==
    {Ok(BodyA), Ok(BodyB), Ok(BodyBig), Ok(EmptyResults), Ok(ResultsWithNull),
     Fail("net"), Fail("abort")}
PopularScripts == Scripts(PopularOutcomes, DefaultRetries)

\* The instants Date.now() is read at: the last millisecond inside and the
\* first millisecond outside the first search period and the first popular
\* period.
Instants ==
    {0, SEARCH_CACHE_TTL - 1, SEARCH_CACHE_TTL,
     POPULAR_CACHE_TTL - 1, POPULAR_CACHE_TTL}

\* searchSongs touches searchCache and never popularCache, getPopularSongs
\* the reverse, and neither sets the clock: the two operations do not act on
\* each other.  A behaviour uses one of them, so that each is explored on
\* all of its inputs.
SearchUnused ==
    searchCache = <<>> /\ lastSearch = NoCall /\ \A c \in DOMAIN search : search[c] = Idle
PopularUnused ==
    popularCache = NoEntry /\ \A c \in DOMAIN popularCalls : popularCalls[c] = PopularIdle

Next ==
    \/ PopularUnused /\ \E c \in Callers, q \in Queries : SearchStart(c, q)
    \/ \E c \in Callers, s \in SearchScripts : SearchSettle(c, s)
    \/ SearchUnused /\ \E c \in Callers : PopularStart(c)
    \/ \E c \in Callers, i \in 1..NumQueries, s \in PopularScripts : PopularSettle(c, i, s)
    \/ \E c \in Callers : PopularFinish(c)
    \/ \E t \in Instants : Tick(t)
    \/ cleanupCache

Spec == Init /\ [][Next]_vars

\* fetchFromITunes alone: how each of the attempts it can make would end,
\* whether or not the call gets to make it.
FetchScripts == {<<a, b, c>> : a \in Outcomes, b \in Outcomes, c \in Outcomes}

NextFetch == \E s \in FetchScripts : FetchCall(s)

SpecFetch == Init /\ [][NextFetch]_vars

\* The titles an embed body carries: with the separator of either platform,
\* without any, with two hyphens, with nothing on one side of the
\* separator, and empty.
EmbedTitles ==
    {<<"A", "b", " ", "-", " ", "C", "d">>,
     <<"A", "b", "c">>,
     <<"A", "-", "B", "-", "C">>,
     <<"A", "b", " ", MiddleDot, " ", "C", "d">>,
     <<" ", "-", " ", "C", "d">>,
     <<"A", "b", " ", MiddleDot>>,
     <<"A", MiddleDot, "B", MiddleDot, "C">>,
     <<>>}
Thumb == <<"t", "h">>

\* How the embed fetch of a link ends.
EmbedResponses ==
    {EmbedOk(EmbedBody(t, th)) : t \in EmbedTitles, th \in {<<>>, Thumb}}
    \cup {EmbedOk(EmbedNoTitle(Thumb)), EmbedOk(EmbedNull)}
    \cup {EmbedFail("http"), EmbedFail("net"), EmbedFail("json")}

\* processMusicLink alone.
NextLink ==
    \/ \E url \in Urls : LinkStart(url)
    \/ LinkWait
    \/ \E resp \in EmbedResponses : LinkSettle(resp)

SpecLink == Init /\ [][NextLink]_vars


\* Calls in flight together: two callers, who search the same key under two
\* spellings; a request answers with one of two different catalog results or
\* is aborted; the clock can move to an instant where every entry written
\* at 0 has expired.
RaceCallers == {1, 2}
RaceQueries == {<<"e", "d">>, <<" ", "E", "d", " ">>}
RaceScripts == {<<Ok(BodyA)>>, <<Ok(BodyB)>>, <<Fail("abort")>>}
\* A sub-query of a popular call answers with one of the two results.
RaceSubScripts == {<<Ok(BodyA)>>, <<Ok(BodyB)>>}
RaceInstants == {POPULAR_CACHE_TTL}

InitRace ==
    /\ now = 0
    /\ searchCache = <<>>
    /\ popularCache = NoEntry
    /\ search = [c \in RaceCallers |-> Idle]
    /\ lastSearch = NoCall
    /\ popularCalls = [c \in RaceCallers |-> PopularIdle]
    /\ fetched = NotFetched
    /\ link = LinkIdle
    /\ noteDoc = SavedNote
    /\ viewCalls = [c \in Viewers |-> ViewIdle]

NextRace ==
    \/ PopularUnused /\ \E c \in RaceCallers, q \in RaceQueries : SearchStart(c, q)
    \/ \E c \in RaceCallers, s \in RaceScripts : SearchSettle(c, s)
    \/ SearchUnused /\ \E c \in RaceCallers : PopularStart(c)
    \/ \E c \in RaceCallers, i \in 1..NumQueries, s \in RaceSubScripts :
          PopularSettle(c, i, s)
    \/ \E c \in RaceCallers : PopularFinish(c)
    \/ \E t \in RaceInstants : Tick(t)
    \/ cleanupCache

SpecRace == InitRace /\ [][NextRace]_vars

\* incrementViews alone, on a note that was saved: the viewers' calls
\* interleave at their awaits.
NextViews ==
    \/ \E c \in Viewers : ViewRead(c)
    \/ \E c \in Viewers : ViewWrite(c)
    \/ \E c \in Viewers : ViewFail(c)

SpecViews == Init /\ [][NextViews]_vars

----------------------------------------------------------------------------
(* Properties.                                                             *)

\* A search call of caller c that has completed.
SearchDone(c) == search[c].pc = "done"

\* The identifiers of a list of songs, in order.
IdsOf(songs) == [i \in 1..Len(songs) |-> songs[i].id]

\* The members of a sequence.
Range(xs) == {xs[i] : i \in 1..Len(xs)}

\* The place where x first appears in xs.
FirstAt(xs, x) == CHOOSE i \in 1..Len(xs) : xs[i] = x /\ \A j \in 1..(i - 1) : xs[j] # x

\* ids holds, without repetition and in the order of their first appearance
\* in all, the identifiers that appear first in all, limit of them at most.
FirstSeenUpTo(ids, all, limit) ==
    /\ \A i, j \in 1..Len(ids) : i # j => ids[i] # ids[j]
    /\ Range(ids) \subseteq Range(all)
    /\ Len(ids) = Min(limit, Cardinality(Range(all)))
    /\ \A i, j \in 1..Len(ids) : i < j => FirstAt(all, ids[i]) < FirstAt(all, ids[j])
    /\ \A x \in Range(all) \ Range(ids) :
          \A i \in 1..Len(ids) : FirstAt(all, ids[i]) < FirstAt(all, x)

\* What sub-query i of a popular call returned: its normalized songs, none
\* when it failed.
ReturnedTo(call, i) ==
    IF Usable(call.results[i]) /\ ~parseITunesResponse(call.results[i].value).threw
    THEN parseITunesResponse(call.results[i].value).songs
    ELSE <<>>
Returned(i) == ReturnedTo(popular, i)

\* The songs of all sub-queries in issuance order.
AllReturned == Returned(1) \o Returned(2) \o Returned(3)

\* The popular call ran its sub-queries and returned a list made of them.
PopularFromNetwork == popular.pc = "done" /\ popular.src = "network"

(* C1 as stated: for any query of at least two characters, two consecutive   *)
(* searchSongs(q) calls within the 30-minute window issue exactly one      *)
(* network call in total, and the second call is a cache hit.              *)
C1_OneNetworkCallInTotal ==
    \A c \in Callers :
        (SearchDone(c) /\ ~TooShort(search[c].query)
         /\ search[c].prev.follows /\ search[c].prev.sameQuery)
        => /\ search[c].src = "cache"
           /\ search[c].prev.attempts + search[c].attempts = 1

(* C1 amended: when the first of two consecutive searchSongs(q) calls       *)
(* within the 30-minute window got a non-empty result from the catalog (in  *)
(* one to three network attempts), the second call is a cache hit and      *)
(* issues no network call.                                                 *)
C1_SecondCallHitsCache ==
    \A c \in Callers :
        (SearchDone(c) /\ search[c].prev.follows /\ search[c].prev.sameQuery
         /\ search[c].prev.cached)
        => /\ search[c].src = "cache"
           /\ search[c].requests = 0
           /\ search[c].attempts = 0
           /\ search[c].prev.attempts \in 1..(DefaultRetries + 1)

C1_Witness ==
    \E c \in Callers :
        /\ SearchDone(c) /\ search[c].prev.follows /\ search[c].prev.sameQuery
        /\ search[c].prev.cached /\ search[c].prev.attempts = 2
        /\ search[c].src = "cache"
        /\ now = SEARCH_CACHE_TTL - 1

(* C2: a list taken from a cache entry is only ever served while the entry  *)
(* is younger than its TTL at the moment of the read (30 minutes for        *)
(* search, 2 hours for popular); an expired entry that is still present is  *)
(* not served.                                                             *)
C2_NoStaleServed ==
    /\ \A c \in Callers :
          /\ search[c].src = "cache" => search[c].found = "fresh"
          /\ search[c].found = "expired" => search[c].src # "cache"
    /\ popular.src = "cache" => popular.found = "fresh"
    /\ popular.found = "expired" => popular.src # "cache"

\* An entry that expired and was never swept is found by a call, which does
\* not serve it.
C2_Witness ==
    /\ popular.pc = "done"
    /\ popular.found = "expired"
    /\ popular.src = "network"

C4_ShortQueryDoesNothing ==
    /\ \A c \in Callers :
          (search[c].pc # "idle" /\ Len(Trim(search[c].query)) < 2)
          => /\ search[c].pc = "done"
             /\ search[c].result = <<>>
             /\ search[c].requests = 0
             /\ search[c].attempts = 0
             /\ ~search[c].lookedUp
    /\ \A k \in DOMAIN searchCache : Len(k) >= 2

C4_Witness ==
    \E c \in Callers :
        /\ SearchDone(c)
        /\ search[c].query = <<"e", " ">>
        /\ search[c].result = <<>>

(* C5: the list getPopularSongs makes of its sub-queries holds every        *)
(* identifier once, in the order the identifiers first appear in the       *)
(* sub-query results taken in issuance order, and has at most 15 songs.    *)
C5_DedupFirstSeenCapped ==
    PopularFromNetwork
    => LET ids == IdsOf(popular.result) IN
       /\ \A i, j \in 1..Len(ids) : i # j => ids[i] # ids[j]
       /\ Len(ids) <= 15
       /\ FirstSeenUpTo(ids, IdsOf(AllReturned), 15)

\* Two sub-queries returned the same identifiers, and more than 15 distinct
\* identifiers came back in all.
C5_Witness ==
    /\ PopularFromNetwork
    /\ Range(IdsOf(Returned(1))) \cap Range(IdsOf(Returned(2))) # {}
    /\ Cardinality(Range(IdsOf(AllReturned))) > 15
    /\ Len(popular.result) = 15

(* C6: when two songs of the concatenated sub-query results share an       *)
(* identifier, the song kept is the first one in issuance order.           *)
C6_FirstOccurrenceWins ==
    PopularFromNetwork
    => \A i \in 1..Len(popular.result) :
          LET at == {j \in 1..Len(AllReturned) :
                        AllReturned[j].id = popular.result[i].id}
              first == CHOOSE j \in at : \A k \in at : j <= k
          IN  popular.result[i] = AllReturned[first]

(* C7 as stated: when any subset of the sub-queries fails, the call returns *)
(* the deduplicated union of the successful ones in issuance order.        *)
SomeQueryFailed ==
    \E i \in 1..NumQueries :
        popular.results[i].status # "pending" /\ popular.results[i].value = Null

YieldsNothing(value) ==
    \/ value = Null
    \/ ~parseITunesResponse(value).threw /\ parseITunesResponse(value).songs = <<>>

\* text contains q once the case of text is ignored; q is lowercase.
ContainsCI(text, q) ==
    \E i \in 0..(Len(text) - Len(q)) :
        \A j \in 1..Len(q) : LowerChar(text[i + j]) = q[j]

C8_FallbackOnTotalFailure ==
    /\ (/\ popular.pc = "done"
        /\ popular.found # "fresh"
        /\ \A i \in 1..NumQueries : YieldsNothing(popular.results[i].value))
       => popular.result = FALLBACK_SONGS
    /\ \A c \in Callers :
          (/\ SearchDone(c)
           /\ ~TooShort(search[c].query)
           /\ search[c].found # "fresh"
           /\ YieldsNothing(search[c].got))
          => LET q == ToLowerCase(Trim(search[c].query)) IN
             search[c].result =
                SelectSeq(FALLBACK_SONGS,
                          LAMBDA s : ContainsCI(s.title, q) \/ ContainsCI(s.artist, q))

\* The search for " Ed " fails on every attempt and returns the one fallback
\* song by Ed Sheeran.
C8_Witness ==
    \E c \in Callers :
        /\ SearchDone(c)
        /\ search[c].query = <<" ", "E", "d", " ">>
        /\ search[c].got = Null
        /\ search[c].attempts = DefaultRetries + 1
        /\ Len(search[c].result) = 1
        /\ search[c].result[1] = FALLBACK_SONGS[1]

(* C9: every Song returned by getPopularSongs or searchSongs, on every      *)
(* path (network result, cache hit or fallback), has a non-empty           *)
(* preview-audio URL.                                                      *)
C9_PreviewNeverEmpty ==
    /\ popular.pc = "done"
          => \A i \in 1..Len(popular.result) : popular.result[i].preview # ""
    /\ \A c \in Callers :
          SearchDone(c)
          => \A i \in 1..Len(search[c].result) : search[c].result[i].preview # ""

(* C10: an attempt of fetchFromITunes that ends in an abort error (the 8 s  *)
(* timer fired) is never retried, even with retries left: no further       *)
(* attempt is issued, no 500 ms delay follows it, and the call resolves to *)
(* null.                                                                   *)
C10_AbortNeverRetried ==
    \A k \in 1..Len(fetched.outs) :
        (/\ IsAbortError(fetched.outs[k])
         /\ \A j \in 1..(k - 1) : fetched.outs[j].kind \notin {"ok", "abort"})
        => /\ fetched.res.attempts = k
           /\ fetched.res.delays = k - 1
           /\ fetched.res.value = Null
           /\ ~fetched.res.rejected

\* The first attempt fails with a status error, the second is aborted with a
\* retry still left, and a third would have succeeded.
C10_Witness ==
    /\ Len(fetched.outs) = 3
    /\ fetched.outs[1] = Fail("http")
    /\ fetched.outs[2] = Fail("abort")
    /\ fetched.outs[3].kind = "ok"
    /\ fetched.retries = DefaultRetries
    /\ fetched.res.attempts = 2

(* C11: one fetchFromITunes call makes at most 3 network attempts (1 plus   *)
(* 2 retries); every failure other than an abort (status, transport or      *)
(* body error) with a retry left is followed by a 500 ms delay and another *)
(* attempt; when every attempt fails the call resolves to null; it never   *)
(* rejects.                                                                *)
MaxAttempts == DefaultRetries + 1

\* The attempt a call ends with: the first that succeeds or is aborted, the
\* last one allowed otherwise.
EndsAt(outs) ==
    CHOOSE k \in 1..MaxAttempts :
        /\ outs[k].kind \in {"ok", "abort"} \/ k = MaxAttempts
        /\ \A j \in 1..(k - 1) : outs[j].kind \notin {"ok", "abort"}

C11_BoundedRetry ==
    fetched # NotFetched
    => LET outs == fetched.outs
           res == fetched.res
       IN  /\ res.attempts \in 1..MaxAttempts
           /\ ~res.rejected
           /\ \A k \in 1..(MaxAttempts - 1) :
                 (/\ \A j \in 1..k : outs[j].kind \in {"http", "net", "json"})
                 => res.attempts >= k + 1 /\ res.delays >= k
           /\ res.attempts = EndsAt(outs)
           /\ res.delays = res.attempts - 1
           /\ (\A j \in 1..res.attempts : outs[j].kind # "ok") => res.value = Null

\* A status error, a transport error and an unparseable body in turn: three
\* attempts, two delays, null.
C11_Witness ==
    /\ Len(fetched.outs) = 3
    /\ fetched.outs[1] = Fail("http")
    /\ fetched.outs[2] = Fail("net")
    /\ fetched.outs[3] = Fail("json")
    /\ fetched.res.attempts = 3
    /\ fetched.res.delays = 2
    /\ fetched.res.value = Null

(* C12: for every network outcome and every payload shape, getPopularSongs *)
(* and searchSongs resolve to a value and never reject.                    *)
C12_NeverRejects ==
    /\ \A c \in Callers : search[c].src # "threw"
    /\ popular.src # "threw"

(* C13: parseITunesResponse is total: for every payload the catalog request *)
(* resolved to (null, no results, empty results, a results that is not an   *)
(* array, an array holding null) it returns a list and does not fail, and  *)
(* the list is empty when results is missing or empty.                     *)
C13_NormalizerTotal ==
    \A c \in Callers :
        (SearchDone(c) /\ search[c].requests = 1)
        => /\ ~parseITunesResponse(search[c].got).threw
           /\ NoLength(search[c].got) => parseITunesResponse(search[c].got).songs = <<>>

(* C18: a sweep deletes a search-cache entry, or clears the popular slot,   *)
(* only if the entry has reached its TTL at the instant of the sweep; every *)
(* entry still within its TTL is left as it is, so a read after the sweep  *)
(* hits exactly when it would have hit without it.                         *)
SweepKeepsFresh ==
    /\ \A k \in DOMAIN searchCache :
          IF now - searchCache[k].timestamp >= SEARCH_CACHE_TTL
          THEN TRUE
          ELSE k \in DOMAIN searchCache' /\ searchCache'[k] = searchCache[k]
    /\ DOMAIN searchCache' \subseteq DOMAIN searchCache
    /\ (popularCache # NoEntry /\ now - popularCache.timestamp < POPULAR_CACHE_TTL)
          => popularCache' = popularCache
    /\ now' = now

C18_SweepRemovesOnlyExpired == [][cleanupCache => SweepKeepsFresh]_vars

\* The popular call filled the slot and the slot is empty again: a sweep
\* cleared it, at or after the instant it expired.
C18_Witness ==
    /\ PopularFromNetwork
    /\ popularCache = NoEntry
    /\ now >= POPULAR_CACHE_TTL

(* C14: for every URL that matches neither the YouTube patterns nor the    *)
(* Spotify pattern, processMusicLink returns null without issuing any      *)
(* network call.                                                           *)
UnrecognizedUrls == {UrlOther, UrlShortId, UrlNoTrack}

C14_UnrecognizedIsNull ==
    (link.pc # "idle" /\ link.url \in UnrecognizedUrls)
    => /\ link.pc = "done"
       /\ link.result = NoSong
       /\ link.requests = 0
       /\ link.waited = 0

C14_Witness ==
    /\ link.pc = "done"
    /\ link.url = UrlOther
    /\ link.result = NoSong

(* C15: whenever the link is recognized and the embed fetch succeeds with a *)
(* 2xx JSON response, the run ends in a non-null SongData; it ends in null *)
(* only when the link is unrecognized or the embed fetch failed.           *)
C15_SuccessGivesSongData ==
    link.pc = "done"
    => /\ (link.url \notin UnrecognizedUrls /\ link.resp.kind = "ok")
             => link.result # NoSong
       /\ link.result = NoSong
             => link.url \in UnrecognizedUrls \/ link.resp.kind \in {"http", "net", "json"}

(* C16: every SongData returned by processMusicLink has endTime =           *)
(* startTime + 30 > startTime; the window is N..N+30 when the YouTube link  *)
(* carries a start time t=N, and 0..30 otherwise.                          *)
\* The start time each link of the model carries, by inspection.
CarriedStart(url) ==
    CASE url = UrlShortStart -> 43
      [] url = UrlWatchStart -> 7
      [] OTHER -> 0

C16_PlaybackWindow ==
    (link.pc = "done" /\ link.result # NoSong)
    => /\ link.result.endTime = link.result.startTime + 30
       /\ link.result.endTime > link.result.startTime
       /\ link.result.startTime = CarriedStart(link.url)

\* The link of the specification resolves to the window 43..73.
C16_Witness ==
    /\ link.pc = "done"
    /\ link.url = UrlShortStart
    /\ link.result.type = "youtube"
    /\ link.result.startTime = 43
    /\ link.result.endTime = 73

(* C17: for both platforms, when the embed title does not contain the       *)
(* platform's separator (hyphen for YouTube, middle dot for Spotify), the   *)
(* SongData has the whole string as title and "Unknown Artist" as artist.  *)
C17_MissingSeparator ==
    (/\ link.pc = "done"
     /\ link.result # NoSong
     /\ link.resp.data.hasTitle
     /\ \A i \in 1..Len(link.resp.data.title) :
           link.resp.data.title[i] # (IF link.platform = "youtube" THEN "-" ELSE MiddleDot))
    => /\ link.result.title = link.resp.data.title
       /\ link.result.artist = UnknownArtist

(* C19: every network call of the core, the embed fetches included, is      *)
(* cancelled once 8 seconds have passed without it completing, so no call  *)
(* waits on a network call for longer.                                     *)
C19_BoundedWait == link.pc = "fetching" => link.waited <= TimeoutMs

(* C20: under any interleaving of concurrent searchSongs and              *)
(* getPopularSongs calls, several for the same key included, a cache entry  *)
(* is written only when a call completes a fetch round that returned songs, *)
(* and the entry written is exactly the complete normalized result of that *)
(* one round, stamped with the instant of the write: it replaces the entry *)
(* found and takes nothing from it.                                        *)
SearchWriteReplaces ==
    \A k \in DOMAIN searchCache' :
        (searchCache' # searchCache
         /\ (k \notin DOMAIN searchCache \/ searchCache'[k] # CacheGet(k)))
        => \E c \in DOMAIN search :
              /\ search[c].pc = "fetching"
              /\ search'[c].pc = "done"
              /\ ToLowerCase(Trim(search[c].query)) = k
              /\ ~parseITunesResponse(search'[c].got).threw
              /\ parseITunesResponse(search'[c].got).songs # <<>>
              /\ searchCache'[k] =
                    [data |-> parseITunesResponse(search'[c].got).songs,
                     timestamp |-> now]

PopularWriteReplaces ==
    (popularCache' # popularCache /\ popularCache' # NoEntry)
    => \E c \in DOMAIN popularCalls :
          LET call == popularCalls'[c]
              all == ReturnedTo(call, 1) \o ReturnedTo(call, 2) \o ReturnedTo(call, 3)
          IN  /\ popularCalls[c].pc = "waiting"
              /\ call.pc = "done"
              /\ all # <<>>
              /\ popularCache' = [data |-> call.result, timestamp |-> now]
              /\ FirstSeenUpTo(IdsOf(call.result), IdsOf(all), 15)
              /\ Range(call.result) \subseteq Range(all)

NoFallbackIn(songs) == Range(songs) \cap Range(FALLBACK_SONGS) = {}

(* C21: only non-empty results are cached.  In every reachable state the    *)
(* popular slot is null or holds a non-empty list of at most 15 songs with  *)
(* pairwise distinct identifiers, every search-cache entry holds a          *)
(* non-empty list, neither cache holds the fallback list, and a call served *)
(* from the popular cache issued no network call.                          *)
C21_OnlyNonEmptyCached ==
    /\ popularCache # NoEntry =>
          /\ Len(popularCache.data) \in 1..PopularLimit
          /\ \A i, j \in 1..Len(popularCache.data) :
                i # j => popularCache.data[i].id # popularCache.data[j].id
          /\ NoFallbackIn(popularCache.data)
    /\ \A k \in DOMAIN searchCache :
          /\ Len(searchCache[k].data) > 0
          /\ NoFallbackIn(searchCache[k].data)
    /\ \A c \in DOMAIN popularCalls :
          popularCalls[c].src = "cache" =>
              /\ popularCalls[c].requests = 0
              /\ \A i \in 1..NumQueries : popularCalls[c].results[i] = Pending

\* A call is served from a full popular slot that an earlier call wrote
\* from more than 15 distinct songs.
C21_Witness ==
    /\ popular.pc = "done"
    /\ popular.src = "cache"
    /\ popular.requests = 0
    /\ Len(popularCache.data) = PopularLimit
    /\ popular.result = popularCache.data

\* The step is the start of a new search by caller c, whose call before it
\* had completed.
StartsAfter(c) == search[c].pc = "done" /\ search'[c] # search[c]

\* The call that starts comes within the TTL after a call of the same
\* normalized key that stored a non-empty result.
FollowsCached(c) ==
    /\ StartsAfter(c)
    /\ search[c].src = "network"
    /\ lastSearch.query = search[c].query
    /\ lastSearch.cached
    /\ now - lastSearch.at < SEARCH_CACHE_TTL
    /\ ToLowerCase(Trim(search'[c].query)) = ToLowerCase(Trim(search[c].query))

(* C22: cache-key normalization.  When a search of q2 starts within the TTL *)
(* after a search of q1 that stored a non-empty result, and q1 and q2 are   *)
(* equal after trimming and lowercasing, it completes at once as a cache    *)
(* hit that returns the list q1 returned and issues no network call; a      *)
(* cache hit always returns the entry stored under the query's own          *)
(* normalized form, and a query whose normalized form has no entry is never *)
(* a hit, whatever other entries exist.                                    *)
C22_SameKeyHits ==
    \A c \in DOMAIN search :
        /\ FollowsCached(c) =>
              /\ search'[c].pc = "done"
              /\ search'[c].src = "cache"
              /\ search'[c].result = search[c].result
              /\ search'[c].requests = 0
              /\ search'[c].attempts = 0
        /\ (StartsAfter(c) /\ search'[c].src = "cache") =>
              /\ ToLowerCase(Trim(search'[c].query)) \in DOMAIN searchCache
              /\ search'[c].result = searchCache[ToLowerCase(Trim(search'[c].query))].data
        /\ (StartsAfter(c) /\ ToLowerCase(Trim(search'[c].query)) \notin DOMAIN searchCache)
              => search'[c].src # "cache"

C22_KeyNormalization == [][C22_SameKeyHits]_vars

\* A query spelled differently from the one before it, with the same
\* normalized form, was served from the entry the first one stored, in the
\* last millisecond of the period.
C22_Witness ==
    /\ search[1].pc = "done"
    /\ search[1].src = "cache"
    /\ search[1].prev.follows
    /\ ~search[1].prev.sameQuery
    /\ search[1].prev.cached
    /\ search[1].query # Trim(search[1].query)
    /\ now = SEARCH_CACHE_TTL - 1

\* The places of the separator sep in a title, the texts before the first
\* of them and after it, trimmed.
PlacesOf(title, sep) == {i \in 1..Len(title) : title[i] = sep}
BeforeFirst(title, sep) == Trim(SubSeq(title, 1, FirstPlace(PlacesOf(title, sep)) - 1))
AfterFirst(title, sep) ==
    Trim(SubSeq(title, FirstPlace(PlacesOf(title, sep)) + 1, Len(title)))

\* The resolved link's embed title has text on both sides of the first
\* separator sep.
SplitsAt(sep) ==
    /\ link.pc = "done"
    /\ link.result # NoSong
    /\ link.resp.data.hasTitle
    /\ PlacesOf(link.resp.data.title, sep) # {}
    /\ BeforeFirst(link.resp.data.title, sep) # <<>>
    /\ AfterFirst(link.resp.data.title, sep) # <<>>

(* C23: the embed title is split at the first occurrence of the platform's  *)
(* separator only.  For YouTube the text before the first hyphen is the     *)
(* artist and all the text after it, further hyphens included, is the       *)
(* title; for Spotify the text before the first middle dot is the title and *)
(* all the text after it is the artist.                                    *)
C23_SplitOnFirstOccurrence ==
    /\ (link.platform = "youtube" /\ SplitsAt("-")) =>
          /\ link.result.artist = BeforeFirst(link.resp.data.title, "-")
          /\ link.result.title = AfterFirst(link.resp.data.title, "-")
    /\ (link.platform = "spotify" /\ SplitsAt(MiddleDot)) =>
          /\ link.result.title = BeforeFirst(link.resp.data.title, MiddleDot)
          /\ link.result.artist = AfterFirst(link.resp.data.title, MiddleDot)

(* C24: the embed fetch of processMusicLink goes through the retry policy.  *)
(* When it fails transiently (a non-2xx status or a transport error), it is *)
(* attempted again before processMusicLink resolves to null: a call that    *)
(* resolved after such a failure made more than one network call.          *)
C24_EmbedFetchRetried ==
    (link.pc = "done" /\ link.resp.kind \in {"http", "net"})
    => /\ link.result = NoSong
       /\ link.requests > 1

\* The step is a step of a call that missed its cache: its start, the
\* settling of one of its requests, or its completion when the fetch round
\* failed or gave no song (the fallback result, or a rejected promise).
RefreshMisses ==
    \/ \E c \in DOMAIN search :
          \/ search[c].pc # "fetching" /\ search'[c].pc = "fetching"
          \/ /\ search[c].pc = "fetching"
             /\ search'[c].pc = "done"
             /\ search'[c].src \in {"fallback", "threw"}
    \/ \E c \in DOMAIN popularCalls :
          \/ popularCalls[c].pc # "waiting" /\ popularCalls'[c].pc = "waiting"
          \/ popularCalls[c].pc = "waiting" /\ popularCalls'[c].results # popularCalls[c].results
          \/ /\ popularCalls[c].pc = "waiting"
             /\ popularCalls'[c].pc = "done"
             /\ popularCalls'[c].src \in {"fallback", "threw"}

(* C25: a failed or empty refresh leaves the caches unchanged.  No step of  *)
(* a searchSongs or getPopularSongs call that misses its cache and whose    *)
(* fetch round fails or normalizes to an empty list changes the search      *)
(* cache or the popular slot: an expired entry stays where it is and the    *)
(* fallback result is not stored.                                          *)
C25_FailedRefreshKeepsCaches ==
    [][RefreshMisses => (searchCache' = searchCache /\ popularCache' = popularCache)]_vars

\* A search found an expired entry, fetched, got nothing and returned songs
\* of the built-in list; the expired entry is still there and is not what
\* the call returned.
C25_Witness ==
    /\ search[1].pc = "done"
    /\ search[1].found = "expired"
    /\ search[1].src = "fallback"
    /\ search[1].result # <<>>
    /\ ToLowerCase(Trim(search[1].query)) \in DOMAIN searchCache
    /\ now - searchCache[ToLowerCase(Trim(search[1].query))].timestamp >= SEARCH_CACHE_TTL
    /\ searchCache[ToLowerCase(Trim(search[1].query))].data # search[1].result

(* C26: Platform A takes precedence.  A link that matches the YouTube       *)
(* pattern is resolved as YouTube, whether or not it matches the Spotify    *)
(* pattern as well; a run of a recognized link calls one embed endpoint,    *)
(* one time, and a returned SongData is tagged with the platform whose      *)
(* endpoint was called.                                                    *)
C26_YouTubeFirst ==
    link.pc # "idle" =>
        /\ parseYouTubeUrl(link.url).matched => link.platform = "youtube"
        /\ (~parseYouTubeUrl(link.url).matched /\ parseSpotifyUrl(link.url).matched)
              => link.platform = "spotify"
        /\ link.platform \in {"youtube", "spotify"} => link.requests = 1
        /\ link.platform = "none" => link.requests = 0
        /\ link.result # NoSong => link.result.type = link.platform

\* A link that matches both patterns was resolved, through one request, to
\* a SongData tagged youtube that carries the video identifier.
C26_Witness ==
    /\ link.pc = "done"
    /\ link.url = UrlBoth
    /\ parseYouTubeUrl(link.url).matched
    /\ parseSpotifyUrl(link.url).matched
    /\ link.requests = 1
    /\ link.result # NoSong
    /\ link.result.type = "youtube"
    /\ link.result.id = parseYouTubeUrl(link.url).id

\* The incrementViews calls that completed without error.
ViewsCounted == {c \in Viewers : viewCalls[c].pc = "done"}

(* C27: view counting loses no update.  For a note saved with views and     *)
(* viewCount at 0, once the incrementViews calls made so far have all       *)
(* completed without error, in any interleaving of their read and write     *)
(* steps, the stored views and viewCount both equal the number of calls.    *)
C27_NoLostUpdate ==
    (\A c \in Viewers : viewCalls[c].pc \in {"idle", "done"})
    => /\ noteDoc.views = Cardinality(ViewsCounted)
       /\ noteDoc.viewCount = Cardinality(ViewsCounted)

====
